---- MODULE Spec2Model ----
(***************************************************************************)
(* A model of src/SentimentAnalysis.py: the comment-tree flattener, the    *)
(* relevance scorer and search-result gate, the sentiment scorer and the   *)
(* collection orchestrator (main).                                         *)
(*                                                                         *)
(* Python values are modelled as follows.  A dict is a record; a missing   *)
(* key or a JSON null is the value PyNone; a list is a sequence; a str     *)
(* whose characters matter (title, selftext) is a sequence of one-character*)
(* strings, and a str that is only compared (a comment body) is a string.  *)
(* A function that can raise returns [exc, val].                           *)
(***************************************************************************)
EXTENDS Integers, Sequences, FiniteSets, TLC

VARIABLES
    \* ---- comment-tree flattener ----
    forest,          \* the 'children' list of the comment listing
    special,         \* the one irregular node shape this listing exhibits
    parsed,          \* TRUE once _parse_comments has returned
    comments_data,   \* the list _parse_comments returned
    \* ---- sentiment scorer ----
    text_kind,          \* what analyze_sentiment's text argument is like
    vader_compound,     \* vader.polarity_scores(text)['compound'], in 1/InputScale
    textblob_polarity,  \* TextBlob(text).sentiment.polarity, in 1/InputScale
    sentiment,          \* <<the record analyze_sentiment returned>>, <<>> before the call
    \* ---- relevance scorer ----
    text_t,          \* a text
    text_u,          \* a text appended to it
    scores,          \* <<the scores calculate_relevance_score returned>>, <<>> before
    \* ---- search results ----
    search_data,     \* the JSON of one search response
    search_term,     \* the term searched for
    search_done,     \* TRUE once _parse_search_results has returned
    posts,           \* the list _parse_search_results returned
    \* ---- main ----
    pc,                  \* where main() is: "thread", "search", "export", "done", "aborted"
    thread_request,      \* how the thread request went, and the JSON it returned
    reddit_posts,        \* what scrape_specific_thread returned
    requests,            \* the search requests made so far: term, outcome, JSON
    all_posts,           \* search_related_threads' accumulator
    all_sentiment_data,  \* main's collection of items
    analysed_df,         \* sentiment_df as analyze_reddit_sentiment returned it
    unique_df,           \* sentiment_df after drop_duplicates
    sentiment_df,        \* the table: the rows analysed, deduplicated and sorted
    result,              \* what main() returned, or the error it ended with
    files                \* the export files written

flattenVars == <<forest, special, parsed, comments_data>>
sentimentVars == <<text_kind, vader_compound, textblob_polarity, sentiment>>

scoreVars == <<text_t, text_u, scores>>
searchVars == <<search_data, search_term, search_done, posts>>

mainVars == <<pc, thread_request, reddit_posts, requests, all_posts,
              all_sentiment_data, analysed_df, unique_df, sentiment_df, result, files>>

vars == <<flattenVars, sentimentVars, scoreVars, searchVars, mainVars>>

-----------------------------------------------------------------------------
(* Constants of the program *)

DELETED_TEXT == "[deleted]"
REMOVED_TEXT == "[removed]"
PyNone == "<None>"
max_level == 4

-----------------------------------------------------------------------------
(* Bounds of the model *)

MaxWords == 2      \* sample words, joined by spaces, in a scored text
MaxChildren == 2   \* children in one search response
MaxTerms == 2      \* how many of main's search terms are searched for
MaxNodes == 7      \* comments in one comment listing (a chain reaches depth 6)
Window == 12       \* model outputs are drawn this close around each sampled midpoint

-----------------------------------------------------------------------------
(* Comment-tree flattener *)

\* replies: absent, None or "" (tag "falsy"), a non-dict value (tag "nondict"), a Listing dict
\* (tag "listing", replies['data']['children'] = children) or a dict without
\* ['data']['children'] (tag "malformed").
NoReplies == [tag |-> "falsy", children |-> <<>>]

\* mutant: the '[removed]' sentinel forgotten
is_valid_comment_no_removed(comment_data) ==
    comment_data.body \notin {DELETED_TEXT, PyNone}

is_valid_comment(comment_data) ==
    comment_data.body \notin {DELETED_TEXT, REMOVED_TEXT, PyNone}

create_comment_info(comment_data, level) ==
    [type |-> "comment",
     id |-> comment_data.id,
     title |-> "",
     text |-> comment_data.body,
     num_comments |-> 0,
     created_utc |-> comment_data.created_utc,
     subreddit |-> "Philippines",
     level |-> level]

RECURSIVE parse_comments(_, _)
RECURSIVE parse_single_comment(_, _)
RECURSIVE parse_comment_replies(_, _)
RECURSIVE parse_each(_, _, _)

\* the for loop of _parse_comments from index i on
parse_each(comments, i, level) ==
    IF i > Len(comments) THEN <<>>
    ELSE parse_single_comment(comments[i], level) \o parse_each(comments, i + 1, level)

\* mutant: the depth guard off by one
parse_comments_ge(comments, level) ==
    IF level >= max_level THEN <<>>
    ELSE parse_each(comments, 1, level)

parse_comments(comments, level) ==
    IF level > max_level THEN <<>>
    ELSE parse_each(comments, 1, level)

\* returns [exc, val]: exc is TRUE when the lookup replies['data']['children'] raises
parse_comment_replies(comment_data, level) ==
    IF comment_data.replies.tag = "falsy" THEN [exc |-> FALSE, val |-> <<>>]
    ELSE IF comment_data.replies.tag = "nondict" THEN [exc |-> FALSE, val |-> <<>>]
    ELSE IF comment_data.replies.tag = "malformed" THEN [exc |-> TRUE, val |-> <<>>]
    ELSE [exc |-> FALSE,
          val |-> parse_comments(comment_data.replies.children, level + 1)]

\* mutant: the replies are put before the comment itself
parse_single_comment_replies_first(comment, level) ==
    IF comment.kind = PyNone THEN <<>>
    ELSE IF comment.kind # "t1" THEN <<>>
    ELSE IF is_valid_comment(comment.data)
         THEN LET comment_info == create_comment_info(comment.data, level)
                  replies_data == parse_comment_replies(comment.data, level)
              IN  IF replies_data.exc THEN <<comment_info>>
                  ELSE replies_data.val \o <<comment_info>>
         ELSE <<>>

parse_single_comment(comment, level) ==
    IF comment.kind = PyNone THEN <<>>            \* KeyError, swallowed
    ELSE IF comment.kind # "t1" THEN <<>>
    ELSE IF is_valid_comment(comment.data)
         THEN LET comment_info == create_comment_info(comment.data, level)
                  replies_data == parse_comment_replies(comment.data, level)
              IN  IF replies_data.exc THEN <<comment_info>>   \* except: pass
                  ELSE <<comment_info>> \o replies_data.val
         ELSE <<>>

-----------------------------------------------------------------------------
(* Sentiment scorer.  Scores are fixed-point numbers: the two model outputs *)
(* are multiples of 1/InputScale (one decimal more than is reported), their *)
(* midpoint is kept doubled (v + p, in 1/(2*InputScale)), and a reported    *)
(* score is a multiple of 1/ReportScale.  The fields vader_positive,        *)
(* vader_negative, vader_neutral and text_length are carried through and    *)
(* are not part of the model.                                               *)

Decimals == 4                       \* round(x, 4)
ReportScale == 10 ^ Decimals
InputScale == 10 * ReportScale

empty_sentiment ==
    [vader_compound |-> 0, textblob_polarity |-> 0, combined_score |-> 0,
     sentiment_label |-> "Neutral"]

\* round(x, 4) of x = n/den: the nearest multiple of 1/ReportScale; a decimal
\* tie is not a tie of the binary double, so either neighbour can come out
Round4(n, den) ==
    LET scaled == n * ReportScale
        q == scaled \div den
        r == scaled % den
    IN  IF 2 * r < den THEN {q}
        ELSE IF 2 * r > den THEN {q + 1}
        ELSE {q, q + 1}

\* the if/elif/else on the unrounded combined_score = twice / (2*InputScale)
classify(twice) ==
    IF 10 * twice >= 2 * InputScale THEN "Positive"         \* >= 0.1
    ELSE IF 10 * twice <= -(2 * InputScale) THEN "Negative" \* <= -0.1
    ELSE "Neutral"

\* the records analyze_sentiment can return
analyze_sentiment(kind, compound, polarity) ==
    IF kind \in {"short", "only_urls", "model_raises"} THEN {empty_sentiment}
    ELSE LET twice == compound + polarity
         IN  {[vader_compound |-> vc, textblob_polarity |-> tp,
               combined_score |-> cs, sentiment_label |-> classify(twice)] :
                 vc \in Round4(compound, InputScale),
                 tp \in Round4(polarity, InputScale),
                 cs \in Round4(twice, 2 * InputScale)}

-----------------------------------------------------------------------------
(* Text.  A str is a sequence of characters; str.lower() and str.upper()   *)
(* map it character by character.  Beside ASCII the alphabet holds the     *)
(* dotless i (U+0131), which lower() leaves alone and upper() turns into   *)
(* the ASCII capital I.                                                    *)

Letters == <<"a", "b", "c", "d", "e", "f", "g", "h", "i", "j", "k", "l", "m",
             "n", "o", "p", "q", "r", "s", "t", "u", "v", "w", "x", "y", "z">>
Capitals == <<"A", "B", "C", "D", "E", "F", "G", "H", "I", "J", "K", "L", "M",
              "N", "O", "P", "Q", "R", "S", "T", "U", "V", "W", "X", "Y", "Z">>
DotlessI == "U+0131"

IsAscii(text) == \A i \in 1..Len(text) : text[i] # DotlessI

\* the lower-case letter of each capital, the capital of each lower-case letter
LowerOf == [c \in {Capitals[i] : i \in 1..Len(Capitals)} |->
              Letters[CHOOSE i \in 1..Len(Capitals) : Capitals[i] = c]]
UpperOf == [c \in {Letters[i] : i \in 1..Len(Letters)} |->
              Capitals[CHOOSE i \in 1..Len(Letters) : Letters[i] = c]]

char_lower(c) == IF c \in DOMAIN LowerOf THEN LowerOf[c] ELSE c

char_upper(c) ==
    IF c = DotlessI THEN "I"
    ELSE IF c \in DOMAIN UpperOf THEN UpperOf[c]
    ELSE c

str_lower(text) == [i \in 1..Len(text) |-> char_lower(text[i])]
str_upper(text) == [i \in 1..Len(text) |-> char_upper(text[i])]

\* Python's  keyword in text
str_in(keyword, text) ==
    \E i \in 0..(Len(text) - Len(keyword)) :
        SubSeq(text, i + 1, i + Len(keyword)) = keyword

-----------------------------------------------------------------------------
(* TariffSentimentAnalyzer's keyword lists *)

food_companies ==
    << <<"J", "F", "C">>,
       <<"U", "R", "C">>,
       <<"C", "N", "P", "F">>,
       <<"G", "S", "M", "I">>,
       <<"M", "O", "N", "D", "E">>,
       <<"j", "o", "l", "l", "i", "b", "e", "e">>,
       <<"u", "n", "i", "v", "e", "r", "s", "a", "l", " ", "r", "o", "b", "i", "n", "a">>,
       <<"c", "e", "n", "t", "u", "r", "y", " ", "p", "a", "c", "i", "f", "i", "c">>,
       <<"g", "i", "n", "e", "b", "r", "a", " ", "s", "a", "n", " ", "m", "i", "g", "u", "e", "l">>,
       <<"m", "o", "n", "d", "e", " ", "n", "i", "s", "s", "i", "n">> >>

stock_keywords ==
    << <<"s", "t", "o", "c", "k">>,
       <<"s", "h", "a", "r", "e", "s">>,
       <<"P", "S", "E">>,
       <<"P", "S", "E", "I">>,
       <<"p", "r", "i", "c", "e">>,
       <<"t", "r", "a", "d", "i", "n", "g">>,
       <<"m", "a", "r", "k", "e", "t", " ", "c", "a", "p">>,
       <<"i", "n", "v", "e", "s", "t", "o", "r">>,
       <<"e", "a", "r", "n", "i", "n", "g", "s">>,
       <<"r", "e", "v", "e", "n", "u", "e">> >>

tariff_keywords ==
    << <<"t", "a", "r", "i", "f", "f">>,
       <<"t", "r", "u", "m", "p", " ", "t", "a", "r", "i", "f", "f">>,
       <<"2", "0", "%", " ", "t", "a", "r", "i", "f", "f">>,
       <<"1", "7", "%", " ", "t", "a", "r", "i", "f", "f">>,
       <<"t", "r", "a", "d", "e", " ", "w", "a", "r">>,
       <<"e", "x", "p", "o", "r", "t">>,
       <<"i", "m", "p", "o", "r", "t">>,
       <<"d", "u", "t", "y">>,
       <<"r", "e", "c", "i", "p", "r", "o", "c", "a", "l">> >>

philippines_keywords ==
    << <<"p", "h", "i", "l", "i", "p", "p", "i", "n", "e", "s">>,
       <<"p", "h", "i", "l", "i", "p", "p", "i", "n", "e">>,
       <<"f", "i", "l", "i", "p", "i", "n", "o">>,
       <<"m", "a", "n", "i", "l", "a">> >>

-----------------------------------------------------------------------------
(* Relevance scorer *)

\* keyword.lower() for each keyword of a list
lowered(keywords) == [i \in 1..Len(keywords) |-> str_lower(keywords[i])]

food_companies_lower == lowered(food_companies)
stock_keywords_lower == lowered(stock_keywords)
tariff_keywords_lower == lowered(tariff_keywords)
philippines_keywords_lower == lowered(philippines_keywords)

\* one  for keyword in keywords: if keyword.lower() in text_lower: score += points
\* (keywords_lower holds the keywords lower-cased)
RECURSIVE tier_score(_, _, _, _)
tier_score(keywords_lower, i, text_lower, points) ==
    IF i > Len(keywords_lower) THEN 0
    ELSE (IF str_in(keywords_lower[i], text_lower) THEN points ELSE 0)
         + tier_score(keywords_lower, i + 1, text_lower, points)

\* mutant: the Philippines tier is left out
calculate_relevance_score_no_ph(text) ==
    LET text_lower == str_lower(text)
    IN  tier_score(food_companies_lower, 1, text_lower, 3)
        + tier_score(stock_keywords_lower, 1, text_lower, 2)
        + tier_score(tariff_keywords_lower, 1, text_lower, 2)

\* mutant: the text is not lower-cased before the keywords are looked up
calculate_relevance_score_as_is(text) ==
    tier_score(food_companies_lower, 1, text, 3)
    + tier_score(stock_keywords_lower, 1, text, 2)
    + tier_score(tariff_keywords_lower, 1, text, 2)
    + tier_score(philippines_keywords_lower, 1, text, 1)

calculate_relevance_score(text) ==
    LET text_lower == str_lower(text)
    IN  tier_score(food_companies_lower, 1, text_lower, 3)
        + tier_score(stock_keywords_lower, 1, text_lower, 2)
        + tier_score(tariff_keywords_lower, 1, text_lower, 2)
        + tier_score(philippines_keywords_lower, 1, text_lower, 1)

\* any(keyword.lower() in full_text for keyword in keywords)
any_keyword_in(keywords_lower, full_text) ==
    \E i \in 1..Len(keywords_lower) : str_in(keywords_lower[i], full_text)

-----------------------------------------------------------------------------
(* Sample texts *)

Space == <<" ">>
W_JFC == <<"J", "F", "C">>
W_jollibee == <<"j", "o", "l", "l", DotlessI, "b", "e", "e">>
W_trade_war == <<"t", "r", "a", "d", "e", " ", "w", "a", "r">>
W_Tariff == <<"T", "a", "r", "i", "f", "f">>
W_Philippines == <<"P", "h", "i", "l", "i", "p", "p", "i", "n", "e", "s">>
W_stock == <<"s", "t", "o", "c", "k">>
W_trade == <<"t", "r", "a", "d", "e">>
W_war == <<"w", "a", "r">>
W_manila == <<"m", "a", "n", "i", "l", "a">>
W_PSEI == <<"P", "S", "E", "I">>

Words == {W_JFC, W_jollibee, W_trade_war, W_Tariff, W_Philippines, W_stock, W_trade, W_war, W_manila, W_PSEI}

\* texts of up to n sample words joined by single spaces
RECURSIVE TextsUpTo(_)
TextsUpTo(n) ==
    IF n = 0 THEN {<<>>}
    ELSE TextsUpTo(n - 1) \cup Words
         \cup {t \o Space \o w : t \in TextsUpTo(n - 1) \ {<<>>}, w \in Words}

-----------------------------------------------------------------------------
(* Search results *)

\* mutant: title and selftext joined without the space
full_text_of_unspaced(post_data) ==
    str_lower(post_data.title) \o str_lower(post_data.selftext)

\* title_lower + ' ' + text_lower
full_text_of(post_data) ==
    str_lower(post_data.title) \o Space \o str_lower(post_data.selftext)

\* (has_philippines and has_tariff) or (has_food_company and has_tariff)
context_gate(full_text) ==
    LET has_food_company == any_keyword_in(food_companies_lower, full_text)
        has_philippines == any_keyword_in(philippines_keywords_lower, full_text)
        has_tariff == any_keyword_in(tariff_keywords_lower, full_text)
    IN  (has_philippines /\ has_tariff) \/ (has_food_company /\ has_tariff)

search_result(post_data, search_term_, relevance_score) ==
    [type |-> "search_result",
     id |-> post_data.id,
     title |-> post_data.title,
     text |-> post_data.selftext,
     created_utc |-> post_data.created_utc,
     subreddit |-> post_data.subreddit,
     url |-> <<"https://reddit.com", post_data.permalink>>,
     search_term |-> search_term_,
     relevance_score |-> relevance_score]

\* the for loop of _parse_search_results from child i on; a child without
\* 'data' (shape "nodata") or with a null title (shape "nulltitle") raises,
\* which ends the loop with the posts so far
RECURSIVE search_loop(_, _, _, _)
search_loop(children, i, search_term_, posts_) ==
    IF i > Len(children) THEN posts_
    ELSE IF children[i].shape # "ok" THEN posts_
    ELSE LET post_data == children[i].data
             full_text == full_text_of(post_data)
             relevance_score == calculate_relevance_score(full_text)
         IN  search_loop(children, i + 1, search_term_,
                 IF context_gate(full_text) /\ relevance_score >= 3
                 THEN Append(posts_, search_result(post_data, search_term_, relevance_score))
                 ELSE posts_)

parse_search_results(search_data_, search_term_) ==
    IF search_data_.shape # "listing" THEN <<>>     \* KeyError, caught
    ELSE search_loop(search_data_.children, 1, search_term_, <<>>)

-----------------------------------------------------------------------------
(* Thread response.  json_data is [submission, len, comments]: json_data[0]  *)
(* is the submission listing (shape "ok" when ['data']['children'][0]       *)
(* ['data'] is there), len is len(json_data), json_data[1] the comment      *)
(* listing (shape "listing" when ['data']['children'] is there).            *)

post_record(main_post) ==
    [type |-> "post",
     id |-> main_post.id,
     title |-> main_post.title,
     text |-> main_post.selftext,
     created_utc |-> main_post.created_utc,
     subreddit |-> main_post.subreddit,
     url |-> <<"https://reddit.com", main_post.permalink>>]

parse_reddit_json(json_data) ==
    IF json_data.submission.shape # "ok" THEN <<>>     \* raised before the append
    ELSE LET post_data == post_record(json_data.submission.data)
         IN  IF json_data.len > 1
             THEN IF json_data.comments.shape # "listing"
                  THEN <<post_data>>                   \* raised after the append
                  ELSE <<post_data>> \o parse_comments(json_data.comments.children, 0)
             ELSE <<post_data>>

-----------------------------------------------------------------------------
(* Requests.  A request ends "neterror" (requests.get raises), "status"     *)
(* (a status code other than 200), "badjson" (response.json() raises) or    *)
(* "ok" (status 200 and a JSON body, data).                                 *)

Outcomes == {"neterror", "status", "badjson", "ok"}

scrape_specific_thread(outcome, data) ==
    IF outcome = "neterror" THEN <<>>
    ELSE IF outcome = "status" THEN <<>>
    ELSE IF outcome = "badjson" THEN <<>>
    ELSE parse_reddit_json(data)

\* mutant: an exception in one iteration throws the posts collected so far away
search_iteration_reset(all_posts_, term, outcome, data) ==
    IF outcome = "neterror" THEN <<>>
    ELSE IF outcome = "status" THEN all_posts_
    ELSE IF outcome = "badjson" THEN <<>>
    ELSE all_posts_ \o parse_search_results(data, term)

\* one iteration of search_related_threads' loop: all_posts after it
search_iteration(all_posts_, term, outcome, data) ==
    IF outcome = "neterror" THEN all_posts_          \* except ...: continue
    ELSE IF outcome = "status" THEN all_posts_
    ELSE IF outcome = "badjson" THEN all_posts_      \* except ...: continue
    ELSE all_posts_ \o parse_search_results(data, term)

search_terms ==
    << "philippines tariff jollibee stock",
       "JFC stock trump tariff",
       "URC universal robina tariff impact",
       "CNPF century pacific tariff stock",
       "philippine food exports tariff stock market",
       "PSE food sector trump tariff",
       "monde nissin MONDE tariff impact",
       "ginebra GSMI tariff stock price",
       "philippine food companies 20% tariff",
       "jollibee JFC investor tariff concerns" >>

-----------------------------------------------------------------------------
(* Analysis and export.  A post's or search result's title and text are     *)
(* character sequences; a comment's text is its body, a string, of which    *)
(* "" and " " are the blank ones.                                           *)

RECURSIVE str_strip(_)
str_strip(text) ==
    IF text = <<>> THEN <<>>
    ELSE IF Head(text) = " " THEN str_strip(Tail(text))
    ELSE IF text[Len(text)] = " " THEN str_strip(SubSeq(text, 1, Len(text) - 1))
    ELSE text

\* f"{post.get('title', '')} {post.get('text', '')}".strip() is not empty
has_full_text(post) ==
    IF post.type = "comment" THEN post.text \notin {"", " "}
    ELSE str_strip(post.title \o Space \o post.text) # <<>>

\* len(text.strip()) < 5
is_short(post) ==
    IF post.type = "comment" THEN FALSE
    ELSE Len(str_strip(post.title \o Space \o post.text)) < 5

analysis_row(post, scored) ==
    LET sentiment_ == IF is_short(post) THEN empty_sentiment ELSE scored
    IN  [date |-> post.created_utc,
         type |-> post.type,
         id |-> post.id,
         subreddit |-> post.subreddit,
         title |-> post.title,
         text |-> post.text,
         level |-> IF "level" \in DOMAIN post THEN post.level ELSE 0,
         url |-> IF "url" \in DOMAIN post THEN post.url ELSE <<>>,
         relevance_score |-> IF "relevance_score" \in DOMAIN post
                             THEN post.relevance_score ELSE 0,
         combined_score |-> sentiment_.combined_score,
         sentiment_label |-> sentiment_.sentiment_label]

\* the rows of analyze_reddit_sentiment for the posts from i on; scored is the
\* record analyze_sentiment returns for a text both models score
RECURSIVE analyze_reddit_sentiment(_, _, _)
analyze_reddit_sentiment(posts_data, i, scored) ==
    IF i > Len(posts_data) THEN <<>>
    ELSE (IF has_full_text(posts_data[i])
          THEN <<analysis_row(posts_data[i], scored)>> ELSE <<>>)
         \o analyze_reddit_sentiment(posts_data, i + 1, scored)

\* mutant: keep='last'
RECURSIVE drop_duplicates_keep_last(_, _)
drop_duplicates_keep_last(rows, i) ==
    IF i > Len(rows) THEN <<>>
    ELSE (IF \E j \in (i + 1)..Len(rows) : rows[j].url = rows[i].url
          THEN <<>> ELSE <<rows[i]>>)
         \o drop_duplicates_keep_last(rows, i + 1)

\* DataFrame.drop_duplicates(subset=['url'], keep='first'), from row i on
RECURSIVE drop_duplicates(_, _)
drop_duplicates(rows, i) ==
    IF i > Len(rows) THEN <<>>
    ELSE (IF \E j \in 1..(i - 1) : rows[j].url = rows[i].url THEN <<>> ELSE <<rows[i]>>)
         \o drop_duplicates(rows, i + 1)

\* the order of sort_values(['relevance_score', 'date'], ascending=[False, True])
sorts_before(a, b) ==
    \/ a.relevance_score > b.relevance_score
    \/ a.relevance_score = b.relevance_score /\ a.date < b.date

\* DataFrame.sort_values on two columns, a stable sort
RECURSIVE sort_values(_)
sort_values(rows) ==
    IF rows = <<>> THEN <<>>
    ELSE LET last == rows[Len(rows)]
             front == sort_values(SubSeq(rows, 1, Len(rows) - 1))
             ahead == {k \in 1..Len(front) : sorts_before(last, front[k])}
             at == IF ahead = {} THEN Len(front) + 1
                   ELSE CHOOSE k \in ahead : \A m \in ahead : k <= m
         IN  SubSeq(front, 1, at - 1) \o <<last>> \o SubSeq(front, at, Len(front))

ExportFiles == {"reddit_sentiment_detailed.csv", "reddit_daily_summary.csv"}

-----------------------------------------------------------------------------
(* The comment listing a thread response carries.  It is received comment  *)
(* by comment in document order: each new comment is a new top-level       *)
(* comment or the last reply of a comment on the rightmost branch.  Every  *)
(* comment is either regular (a 't1' with a body) or of the shape          *)
(* 'special'.                                                              *)

Specials == {"deleted", "removed", "nobody", "more", "nokind", "malformed", "nondict"}

RawComment(id, shape) ==
    [kind |-> IF shape = "more" THEN "more"
              ELSE IF shape = "nokind" THEN PyNone ELSE "t1",
     data |-> [id |-> id,
               body |-> IF shape = "deleted" THEN DELETED_TEXT
                        ELSE IF shape = "removed" THEN REMOVED_TEXT
                        ELSE IF shape = "nobody" THEN PyNone
                        ELSE IF shape = "emptybody" THEN ""
                        ELSE "jollibee stock",
               created_utc |-> 0,
               replies |-> IF shape = "malformed"
                           THEN [tag |-> "malformed", children |-> <<>>]
                           ELSE IF shape = "nondict"
                           THEN [tag |-> "nondict", children |-> <<>>]
                           ELSE NoReplies]]

RECURSIVE CountNodes(_)
CountNodes(comments) ==
    IF comments = <<>> THEN 0
    ELSE 1 + CountNodes(comments[1].data.replies.children) + CountNodes(Tail(comments))

\* the depths at which a new comment can be attached (0 = top level)
RECURSIVE OpenDepths(_, _)
OpenDepths(comments, depth) ==
    {depth} \cup
    (IF comments = <<>> THEN {}
     ELSE LET last == comments[Len(comments)]
          IN  IF last.data.replies.tag \in {"falsy", "listing"}
              THEN OpenDepths(last.data.replies.children, depth + 1)
              ELSE {})

RECURSIVE Attach(_, _, _)
Attach(comments, depth, node) ==
    IF depth = 0 THEN Append(comments, node)
    ELSE [comments EXCEPT ![Len(comments)].data.replies =
             [tag |-> "listing", children |-> Attach(@.children, depth - 1, node)]]

FlattenIdle ==
    /\ forest = <<>>
    /\ special = "regular"
    /\ parsed = FALSE
    /\ comments_data = <<>>

SentimentIdle ==
    /\ text_kind = "scorable"
    /\ vader_compound = 0
    /\ textblob_polarity = 0
    /\ sentiment = <<>>

ScoreIdle ==
    /\ text_t = <<>>
    /\ text_u = <<>>
    /\ scores = <<>>

SearchIdle ==
    /\ search_data = [shape |-> "listing", children |-> <<>>]
    /\ search_term = ""
    /\ search_done = FALSE
    /\ posts = <<>>

MainIdle ==
    /\ pc = "idle"
    /\ thread_request = <<>>
    /\ reddit_posts = <<>>
    /\ requests = <<>>
    /\ all_posts = <<>>
    /\ all_sentiment_data = <<>>
    /\ analysed_df = <<>>
    /\ unique_df = <<>>
    /\ sentiment_df = <<>>
    /\ result = "running"
    /\ files = {}

FlattenInit ==
    /\ forest = <<>>
    /\ special \in Specials
    /\ parsed = FALSE
    /\ comments_data = <<>>
    /\ SentimentIdle /\ ScoreIdle /\ SearchIdle /\ MainIdle

ReceiveComment ==
    /\ ~parsed
    /\ CountNodes(forest) < MaxNodes
    /\ \E depth \in OpenDepths(forest, 0), shape \in {"regular", special} :
          forest' = Attach(forest, depth, RawComment(CountNodes(forest) + 1, shape))
    /\ UNCHANGED <<special, parsed, comments_data, sentimentVars, scoreVars, searchVars, mainVars>>

ParseComments ==
    /\ ~parsed
    /\ parsed' = TRUE
    /\ comments_data' = parse_comments(forest, 0)
    /\ UNCHANGED <<forest, special, sentimentVars, scoreVars, searchVars, mainVars>>

FlattenNext == ReceiveComment \/ ParseComments

SpecFlatten == FlattenInit /\ [][FlattenNext]_vars

-----------------------------------------------------------------------------
(* analyze_sentiment applied to one text.  The text is one of: falsy or    *)
(* shorter than 5 characters ("short"), empty once URLs, mentions and      *)
(* hashtags are removed ("only_urls"), one a model raises on               *)
(* ("model_raises"), or one both models score ("scorable").                *)

TextKinds == {"short", "only_urls", "model_raises", "scorable"}

\* sampled values of the compound score and of the doubled midpoint
VaderSamples == {-InputScale, -3 * ReportScale, 0, ReportScale, 7 * ReportScale}
TwiceSamples == {-2 * ReportScale, 0, 2 * ReportScale, 9 * ReportScale}

SentimentInit ==
    /\ FlattenIdle /\ ScoreIdle /\ SearchIdle /\ MainIdle
    /\ text_kind \in TextKinds
    /\ vader_compound \in VaderSamples
    /\ textblob_polarity \in
          {t - vader_compound + d : t \in TwiceSamples, d \in (-Window)..Window}
          \cap (-InputScale)..InputScale
    /\ sentiment = <<>>

AnalyzeSentiment ==
    /\ sentiment = <<>>
    /\ \E record \in analyze_sentiment(text_kind, vader_compound, textblob_polarity) :
          sentiment' = <<record>>
    /\ UNCHANGED <<text_kind, vader_compound, textblob_polarity, flattenVars, scoreVars, searchVars, mainVars>>

SentimentNext == AnalyzeSentiment

SpecSentiment == SentimentInit /\ [][SentimentNext]_vars

-----------------------------------------------------------------------------
(* calculate_relevance_score applied to a text t, to t + u, and to t in     *)
(* upper and in lower case.                                                *)

ScoreInit ==
    /\ FlattenIdle /\ SentimentIdle /\ SearchIdle /\ MainIdle
    /\ text_t \in TextsUpTo(MaxWords)
    /\ text_u \in Words \cup {<<>>}
    /\ scores = <<>>

ScoreTexts ==
    /\ scores = <<>>
    /\ scores' = <<[t |-> calculate_relevance_score(text_t),
                    tu |-> calculate_relevance_score(text_t \o text_u),
                    upper |-> calculate_relevance_score(str_upper(text_t)),
                    lower |-> calculate_relevance_score(str_lower(text_t))]>>
    /\ UNCHANGED <<text_t, text_u, flattenVars, sentimentVars, searchVars, mainVars>>

ScoreNext == ScoreTexts

SpecScore == ScoreInit /\ [][ScoreNext]_vars

-----------------------------------------------------------------------------
(* _parse_search_results applied to one search response *)

Terms == {"philippines tariff jollibee stock", "JFC stock trump tariff"}

TitleSamples == {<<>>, W_JFC, W_jollibee, W_Tariff, W_Philippines, W_stock, W_trade}
BodySamples == {<<>>, W_trade_war, W_war \o Space \o W_manila, W_JFC \o Space \o W_stock}

PostData(id, title, selftext) ==
    [id |-> id, title |-> title, selftext |-> selftext, created_utc |-> 10 - id,
     subreddit |-> "Philippines", permalink |-> id]

\* what a child of a search response can be like, but for its id
ChildSamples ==
    {[shape |-> "ok", title |-> title, selftext |-> selftext] :
        title \in TitleSamples, selftext \in BodySamples}
    \cup {[shape |-> "nodata", title |-> <<>>, selftext |-> <<>>],
          [shape |-> "nulltitle", title |-> <<>>, selftext |-> W_trade_war]}

\* the response whose children are the picked samples, with ids 1, 2, ...
Listing(pick) ==
    [shape |-> "listing",
     children |-> [i \in 1..Len(pick) |->
                     [shape |-> pick[i].shape,
                      data |-> PostData(i, pick[i].title, pick[i].selftext)]]]

SearchResponses ==
    {[shape |-> "nodata", children |-> <<>>]}
    \cup {Listing(pick) : pick \in UNION {[1..n -> ChildSamples] : n \in 0..MaxChildren}}

SearchInit ==
    /\ FlattenIdle /\ SentimentIdle /\ ScoreIdle /\ MainIdle
    /\ search_data \in SearchResponses
    /\ search_term \in Terms
    /\ search_done = FALSE
    /\ posts = <<>>

ParseSearchResults ==
    /\ ~search_done
    /\ search_done' = TRUE
    /\ posts' = parse_search_results(search_data, search_term)
    /\ UNCHANGED <<search_data, search_term, flattenVars, sentimentVars, scoreVars, mainVars>>

SearchNext == ParseSearchResults

SpecSearch == SearchInit /\ [][SearchNext]_vars

-----------------------------------------------------------------------------
(* main(): the thread request, one search request per term, then analysis   *)
(* and export.                                                              *)

NumTerms == IF MaxTerms < Len(search_terms) THEN MaxTerms ELSE Len(search_terms)

Submission(shape, title, selftext) ==
    [shape |-> shape, data |-> PostData(0, title, selftext)]

SubmissionSamples ==
    {Submission("ok", W_Tariff \o Space \o W_Philippines, <<>>),
     Submission("ok", <<>>, <<>>),
     Submission("nochildren", <<>>, <<>>)}

Reply(comments, depth, shape) ==
    Attach(comments, depth, RawComment(CountNodes(comments) + 1, shape))

CommentSamples ==
    {<<>>,
     Reply(<<>>, 0, "regular"),
     Reply(<<>>, 0, "emptybody"),
     Reply(Reply(<<>>, 0, "regular"), 1, "regular"),
     Reply(Reply(Reply(<<>>, 0, "deleted"), 1, "regular"), 0, "regular")}

ThreadResponses ==
    {[submission |-> submission, len |-> 1,
      comments |-> [shape |-> "none", children |-> <<>>]] :
        submission \in SubmissionSamples}
    \cup {[submission |-> submission, len |-> 2,
           comments |-> [shape |-> "nodata", children |-> <<>>]] :
             submission \in SubmissionSamples}
    \cup {[submission |-> submission, len |-> 2,
           comments |-> [shape |-> "listing", children |-> children]] :
             submission \in SubmissionSamples, children \in CommentSamples}

Child(shape, title, selftext) == [shape |-> shape, title |-> title, selftext |-> selftext]

MainSearchResponses ==
    {[shape |-> "nodata", children |-> <<>>],
     Listing(<<>>),
     Listing(<<Child("ok", W_JFC, W_trade_war)>>),
     Listing(<<Child("ok", W_stock, <<>>), Child("ok", W_JFC, W_trade_war)>>),
     Listing(<<Child("nodata", <<>>, <<>>), Child("ok", W_JFC, W_trade_war)>>),
     Listing(<<Child("ok", W_Tariff, W_war \o Space \o W_manila),
               Child("ok", W_JFC, W_trade_war)>>)}

NoData == [shape |-> "nodata", children |-> <<>>]

MainInit ==
    /\ FlattenIdle /\ ScoreIdle /\ SearchIdle
    /\ text_kind = "scorable"
    /\ vader_compound \in {-3 * ReportScale, 7 * ReportScale}
    /\ textblob_polarity = 0
    /\ sentiment = <<>>
    /\ pc = "thread"
    /\ thread_request = <<>>
    /\ reddit_posts = <<>>
    /\ requests = <<>>
    /\ all_posts = <<>>
    /\ all_sentiment_data = <<>>
    /\ analysed_df = <<>>
    /\ unique_df = <<>>
    /\ sentiment_df = <<>>
    /\ result = "running"
    /\ files = {}

\* 1. scrape the main thread; extend all_sentiment_data when something came
ScrapeThread ==
    /\ pc = "thread"
    /\ \E outcome \in Outcomes :
       \E data \in IF outcome = "ok" THEN ThreadResponses
                   ELSE {[submission |-> Submission("nochildren", <<>>, <<>>), len |-> 1,
                          comments |-> [shape |-> "none", children |-> <<>>]]} :
          /\ thread_request' = <<[outcome |-> outcome, data |-> data]>>
          /\ reddit_posts' = scrape_specific_thread(outcome, data)
    /\ all_sentiment_data' = IF reddit_posts' # <<>> THEN reddit_posts' ELSE <<>>
    /\ pc' = "search"
    /\ UNCHANGED <<requests, all_posts, analysed_df, unique_df, sentiment_df, result, files,
                   flattenVars, sentimentVars, scoreVars, searchVars>>

\* 2. one iteration of search_related_threads' loop
SearchTerm ==
    /\ pc = "search"
    /\ Len(requests) < NumTerms
    /\ LET term == search_terms[Len(requests) + 1]
       IN  \E outcome \in Outcomes :
           \E data \in IF outcome = "ok" THEN MainSearchResponses ELSE {NoData} :
              /\ requests' = Append(requests,
                                    [term |-> term, outcome |-> outcome, data |-> data])
              /\ all_posts' = search_iteration(all_posts, term, outcome, data)
    /\ UNCHANGED <<pc, thread_request, reddit_posts, all_sentiment_data, analysed_df,
                   unique_df, sentiment_df, result, files, flattenVars, sentimentVars, scoreVars, searchVars>>

\* search_related_threads returns; main extends all_sentiment_data
SearchReturns ==
    /\ pc = "search"
    /\ Len(requests) = NumTerms
    /\ all_sentiment_data' = IF all_posts # <<>> THEN all_sentiment_data \o all_posts
                             ELSE all_sentiment_data
    /\ pc' = "export"
    /\ UNCHANGED <<thread_request, reddit_posts, requests, all_posts, analysed_df,
                   unique_df, sentiment_df, result, files, flattenVars, sentimentVars, scoreVars, searchVars>>

\* 3. nothing collected: the notice, no file, None
NothingCollected ==
    /\ pc = "export"
    /\ all_sentiment_data = <<>>
    /\ result' = "None"
    /\ pc' = "done"
    /\ UNCHANGED <<thread_request, reddit_posts, requests, all_posts, all_sentiment_data,
                   analysed_df, unique_df, sentiment_df, files, flattenVars, sentimentVars, scoreVars, searchVars>>

\* 3. analyse, drop duplicates, sort, export.  A DataFrame made of no rows
\* has no columns: sentiment_df['date'] raises KeyError and main() ends with it.
AnalyzeAndExport ==
    /\ pc = "export"
    /\ all_sentiment_data # <<>>
    /\ \E scored \in analyze_sentiment(text_kind, vader_compound, textblob_polarity) :
          LET rows == analyze_reddit_sentiment(all_sentiment_data, 1, scored)
          IN  /\ analysed_df' = rows
              /\ unique_df' = drop_duplicates(rows, 1)
              /\ IF rows = <<>>
                 THEN /\ sentiment_df' = <<>>
                      /\ result' = "KeyError"
                      /\ files' = {}
                      /\ pc' = "aborted"
                 ELSE /\ sentiment_df' = sort_values(unique_df')
                      /\ result' = "table"
                      /\ files' = ExportFiles
                      /\ pc' = "done"
    /\ UNCHANGED <<thread_request, reddit_posts, requests, all_posts, all_sentiment_data,
                   flattenVars, sentimentVars, scoreVars, searchVars>>

MainNext ==
    \/ ScrapeThread
    \/ SearchTerm
    \/ SearchReturns
    \/ NothingCollected
    \/ AnalyzeAndExport

SpecMain == MainInit /\ [][MainNext]_vars

-----------------------------------------------------------------------------
(* Properties of the flattener *)

\* every comment of the listing (id, kind, body) with its depth and its path of
\* child indices
RECURSIVE Located(_, _, _)
Located(comments, depth, prefix) ==
    UNION {{[id |-> comments[i].data.id, kind |-> comments[i].kind,
             body |-> comments[i].data.body, depth |-> depth, path |-> Append(prefix, i)]}
           \cup Located(comments[i].data.replies.children, depth + 1, Append(prefix, i))
           : i \in 1..Len(comments)}

AllComments == Located(forest, 0, <<>>)

IsPrefix(p, q) == Len(p) <= Len(q) /\ SubSeq(q, 1, Len(p)) = p
IsAncestor(a, b) == Len(a.path) < Len(b.path) /\ IsPrefix(a.path, b.path)
ParentPath(c) == SubSeq(c.path, 1, Len(c.path) - 1)
AreSiblings(a, b) == Len(a.path) = Len(b.path) /\ ParentPath(a) = ParentPath(b)
ComesBefore(a, b) == AreSiblings(a, b) /\ a.path[Len(a.path)] < b.path[Len(b.path)]

EmittedIds == {comments_data[k].id : k \in 1..Len(comments_data)}
Emitted(c) == \E k \in 1..Len(comments_data) : comments_data[k].id = c.id
PositionOf(c) == CHOOSE k \in 1..Len(comments_data) : comments_data[k].id = c.id

HasValidBody(c) ==
    /\ c.body # "[deleted]"
    /\ c.body # "[removed]"
    /\ c.body # PyNone

IsComment(c) == c.kind = "t1"

\* C1: _parse_comments emits exactly the 't1' comments with a valid body at
\* depth 0..4 whose ancestors are all emitted too, each once, with 'level'
\* equal to its depth; so no item has level 5 or more.
C1_EmitsExactlyValidWithinDepth ==
    parsed =>
        LET all == AllComments
            out == {c \in all : Emitted(c)}
        IN  /\ \A c \in all :
                  c \in out <=>
                     /\ IsComment(c)
                     /\ HasValidBody(c)
                     /\ c.depth \in 0..4
                     /\ \A a \in all : IsAncestor(a, c) => a \in out
            /\ Cardinality(EmittedIds) = Len(comments_data)
            /\ \A c \in out : comments_data[PositionOf(c)].level = c.depth
            /\ \A k \in 1..Len(comments_data) : comments_data[k].level \in 0..4

\* a listing that reaches depth 6 through valid comments, flattened to levels 0..4
C1_Witness ==
    /\ parsed
    /\ \E c \in AllComments :
          /\ c.depth = 6
          /\ IsComment(c) /\ HasValidBody(c)
          /\ \A a \in AllComments : IsAncestor(a, c) => IsComment(a) /\ HasValidBody(a)
    /\ {comments_data[k].level : k \in 1..Len(comments_data)} = 0..4

\* C2: a comment whose body is '[deleted]', '[removed]' or absent is not
\* emitted and neither is any comment of its reply subtree; a sibling of it
\* that is a valid 't1' within depth 4 under an emitted parent is emitted.
C2_InvalidBodyDropsSubtree ==
    parsed =>
        LET all == AllComments
            out == {c \in all : Emitted(c)}
        IN  \A c \in {x \in all : ~HasValidBody(x)} :
                /\ c \notin out
                /\ \A d \in out : ~IsAncestor(c, d)
                /\ \A s \in all :
                      ( /\ AreSiblings(c, s)
                        /\ IsComment(s) /\ HasValidBody(s)
                        /\ s.depth <= 4
                        /\ \A a \in all : a.path = ParentPath(s) => a \in out )
                      => s \in out

\* an invalid comment with a valid reply, between two emitted siblings
C2_Witness ==
    /\ parsed
    /\ \E c, d, s1, s2 \in AllComments :
          /\ IsComment(c) /\ ~HasValidBody(c)
          /\ IsAncestor(c, d) /\ IsComment(d) /\ HasValidBody(d)
          /\ ComesBefore(s1, c) /\ ComesBefore(c, s2)
          /\ Emitted(s1) /\ Emitted(s2)

\* C3: the output is a pre-order traversal: an emitted comment comes before
\* its emitted descendants, and for two siblings in input order (the comments
\* at which the paths of d and e part) everything emitted from the first
\* one's subtree comes before everything emitted from the second one's.
PartsBefore(d, e) ==
    \E k \in 1..Len(d.path) :
        /\ k <= Len(e.path)
        /\ SubSeq(d.path, 1, k - 1) = SubSeq(e.path, 1, k - 1)
        /\ d.path[k] < e.path[k]

C3_PreOrder ==
    parsed =>
        LET out == {c \in AllComments : Emitted(c)}
        IN  \A d, e \in out :
               /\ IsAncestor(d, e) => PositionOf(d) < PositionOf(e)
               /\ PartsBefore(d, e) => PositionOf(d) < PositionOf(e)

\* two emitted siblings that each have an emitted reply
C3_Witness ==
    /\ parsed
    /\ \E a, b, d, e \in AllComments :
          /\ ComesBefore(a, b)
          /\ IsAncestor(a, d) /\ IsAncestor(b, e)
          /\ Emitted(a) /\ Emitted(b) /\ Emitted(d) /\ Emitted(e)

-----------------------------------------------------------------------------
(* Properties of the sentiment scorer *)

\* the label the thresholds give for a reported score c/ReportScale
LabelOf(c) ==
    IF 10 * c >= ReportScale THEN "Positive"
    ELSE IF 10 * c <= -ReportScale THEN "Negative"
    ELSE "Neutral"

\* C4: in every returned record sentiment_label is the label the thresholds
\* give for the returned (rounded) combined_score: Positive from 0.1 up,
\* Negative from -0.1 down, Neutral strictly between.
C4_LabelFollowsReportedScore ==
    sentiment # <<>> => sentiment[1].sentiment_label = LabelOf(sentiment[1].combined_score)

-----------------------------------------------------------------------------
(* Properties of the relevance scorer and of the search-result gate *)

\* keyword occurs in text at position i, letter case aside
OccursAt(keyword, text, i) ==
    /\ i + Len(keyword) - 1 <= Len(text)
    /\ \A j \in 1..Len(keyword) : char_lower(text[i + j - 1]) = char_lower(keyword[j])

Occurs(keyword, text) == \E i \in 1..Len(text) : OccursAt(keyword, text, i)

OccurringIn(keywords, text) == {i \in 1..Len(keywords) : Occurs(keywords[i], text)}

\* every keyword that occurs counted once with its tier's points
OncePerKeyword(text) ==
    3 * Cardinality(OccurringIn(food_companies, text))
    + 2 * Cardinality(OccurringIn(stock_keywords, text))
    + 2 * Cardinality(OccurringIn(tariff_keywords, text))
    + Cardinality(OccurringIn(philippines_keywords, text))

\* C7 as stated: score(t + u) >= score(t); score(t) is the score of t in
\* upper case and of t in lower case; every keyword adds its tier's points
\* once, however often it occurs.
C7_MonotonicCaseInvariant ==
    scores # <<>> =>
        /\ scores[1].tu >= scores[1].t
        /\ scores[1].upper = scores[1].t
        /\ scores[1].lower = scores[1].t
        /\ scores[1].t = OncePerKeyword(text_t)

\* C7 as amended: score(t + u) >= score(t); score(t) is the score of t in
\* lower case and, when t is ASCII, of t in upper case (upper-casing never
\* lowers the score); every keyword adds its tier's points once.
C7_MonotonicCaseInvariantAscii ==
    scores # <<>> =>
        /\ scores[1].tu >= scores[1].t
        /\ scores[1].lower = scores[1].t
        /\ scores[1].upper >= scores[1].t
        /\ IsAscii(text_t) => scores[1].upper = scores[1].t
        /\ scores[1].t = OncePerKeyword(text_t)

\* a mixed-case ASCII text in which 'tariff' occurs twice, and a u that adds
\* a keyword
C7_Witness ==
    /\ scores # <<>>
    /\ IsAscii(text_t)
    /\ str_lower(text_t) # text_t /\ str_upper(text_t) # text_t
    /\ \E i, j \in 1..Len(text_t) :
          i # j /\ OccursAt(tariff_keywords[1], text_t, i)
                /\ OccursAt(tariff_keywords[1], text_t, j)
    /\ scores[1].t = 2
    /\ scores[1].tu > scores[1].t

\* the lower-cased title + ' ' + selftext of a child
JoinedText(child) ==
    [i \in 1..(Len(child.data.title) + 1 + Len(child.data.selftext)) |->
        IF i <= Len(child.data.title) THEN char_lower(child.data.title[i])
        ELSE IF i = Len(child.data.title) + 1 THEN " "
        ELSE char_lower(child.data.selftext[i - Len(child.data.title) - 1])]

InContext(text) ==
    /\ OccurringIn(tariff_keywords, text) # {}
    /\ OccurringIn(philippines_keywords, text) # {}
          \/ OccurringIn(food_companies, text) # {}

\* the full texts the children of the search responses hold
SampleFullTexts == {t \o Space \o b : t \in {str_lower(x) : x \in TitleSamples},
                                       b \in {str_lower(x) : x \in BodySamples}}

\* C5 as stated: some text passes the boolean context check and is rejected
\* by the threshold relevance_score >= 3, and some text with relevance_score
\* >= 3 is rejected by the boolean context check.
C5_StricterThanEitherCheck ==
    search_done =>
        /\ \E text \in SampleFullTexts :
              context_gate(text) /\ ~(calculate_relevance_score(text) >= 3)
        /\ \E text \in SampleFullTexts :
              calculate_relevance_score(text) >= 3 /\ ~context_gate(text)

\* C5 as amended: the threshold rejects nothing the context check lets
\* through: every child that passes the boolean context check has
\* relevance_score >= 3 (a tariff keyword gives 2 and a Philippines keyword
\* 1 or a company keyword 3), so a child is retained exactly when it passes
\* the context check.
C5_ContextCheckImpliesThreshold ==
    search_done =>
        \A i \in 1..Len(search_data.children) :
            LET child == search_data.children[i]
            IN  (child.shape = "ok" /\ context_gate(full_text_of(child.data)))
                    => calculate_relevance_score(full_text_of(child.data)) >= 3

\* a response with a child at the least score that passes the context check,
\* retained, and a child with score >= 3 that the context check rejects
C5_Witness ==
    /\ search_done
    /\ \E i, j \in 1..Len(search_data.children) :
          /\ search_data.children[i].shape = "ok"
          /\ search_data.children[j].shape = "ok"
          /\ context_gate(full_text_of(search_data.children[i].data))
          /\ calculate_relevance_score(full_text_of(search_data.children[i].data)) = 3
          /\ \E k \in 1..Len(posts) : posts[k].id = search_data.children[i].data.id
          /\ ~context_gate(full_text_of(search_data.children[j].data))
          /\ calculate_relevance_score(full_text_of(search_data.children[j].data)) >= 3
          /\ \A k \in 1..Len(posts) : posts[k].id # search_data.children[j].data.id

WellFormed(response) ==
    /\ response.shape = "listing"
    /\ \A i \in 1..Len(response.children) : response.children[i].shape = "ok"

ShouldRetain(child) ==
    InContext(JoinedText(child)) /\ OncePerKeyword(JoinedText(child)) >= 3

\* the children from i on that should be retained, as search results
RECURSIVE RetainedFrom(_, _, _)
RetainedFrom(children, i, term) ==
    IF i > Len(children) THEN <<>>
    ELSE (IF ShouldRetain(children[i])
          THEN <<[id |-> children[i].data.id,
                  type |-> "search_result",
                  search_term |-> term,
                  relevance_score |-> OncePerKeyword(JoinedText(children[i]))]>>
          ELSE <<>>)
         \o RetainedFrom(children, i + 1, term)

JFC_trade_war == <<"j", "f", "c", " ", "t", "r", "a", "d", "e", " ", "w", "a", "r">>

C8_MalformedChildStaysLocal ==
    (search_done /\ search_data.shape = "listing") =>
        \A i \in 1..Len(search_data.children) :
            (search_data.children[i].shape = "ok" /\ ShouldRetain(search_data.children[i]))
                => \E k \in 1..Len(posts) : posts[k].id = search_data.children[i].data.id

-----------------------------------------------------------------------------
(* Properties of main *)

\* the parsed results of the requests from k on that succeeded, in order
RECURSIVE ResultsOfSucceeded(_, _)
ResultsOfSucceeded(log, k) ==
    IF k > Len(log) THEN <<>>
    ELSE (IF log[k].outcome = "ok"
          THEN parse_search_results(log[k].data, log[k].term) ELSE <<>>)
         \o ResultsOfSucceeded(log, k + 1)

SearchIsOver == pc \in {"export", "done", "aborted"}

\* C9: whichever requests fail, search_related_threads ends with the
\* concatenation, in term order, of the parsed results of the requests that
\* succeeded, having made one request per term; a failed thread fetch gives
\* the empty list, and the search phase runs after it.
C9_NoRequestFailureIsFatal ==
    /\ pc \in {"search", "export", "done", "aborted"} =>
          /\ all_posts = ResultsOfSucceeded(requests, 1)
          /\ \A k \in 1..Len(requests) : requests[k].term = search_terms[k]
          /\ thread_request[1].outcome # "ok" => reddit_posts = <<>>
    /\ SearchIsOver => Len(requests) = NumTerms

\* the thread fetch failed, a search request failed after one that had
\* brought posts, and those posts are still there
C9_Witness ==
    /\ SearchIsOver
    /\ thread_request[1].outcome # "ok"
    /\ \E k \in 1..(Len(requests) - 1) :
          /\ requests[k].outcome = "ok"
          /\ parse_search_results(requests[k].data, requests[k].term) # <<>>
          /\ requests[k + 1].outcome \in {"neterror", "badjson"}
    /\ all_posts # <<>>

\* C10: main() ends either with the notice, no export file and None (nothing
\* collected) or, for every non-empty collection, with the table and both
\* export files; it never ends with an error.
C10_MainEndsWithNoneOrTable ==
    pc \in {"done", "aborted"} =>
        IF all_sentiment_data = <<>>
        THEN result = "None" /\ files = {}
        ELSE result = "table" /\ files = ExportFiles

-----------------------------------------------------------------------------
(* Properties of the export pass *)

MainIsOver == pc \in {"done", "aborted"}

\* the k-th smallest member of a set of indices
AtRank(indices, k) ==
    CHOOSE i \in indices : Cardinality({j \in indices : j <= i}) = k

\* the items of the collection that have a text to analyse
TextItems == {i \in 1..Len(all_sentiment_data) : has_full_text(all_sentiment_data[i])}

\* the rows whose url no earlier row has
FirstRows == {i \in 1..Len(analysed_df) :
                 \A j \in 1..(i - 1) : analysed_df[j].url # analysed_df[i].url}

\* C11: the rows are analysed in collection order, the thread's items before
\* the search results and these in term order; drop_duplicates keeps, for
\* each url, exactly the first of the rows that have it, drops every later
\* one, and leaves the kept rows in the order they had.
C11_KeepsFirstRowPerUrl ==
    MainIsOver =>
        /\ all_sentiment_data = reddit_posts \o ResultsOfSucceeded(requests, 1)
        /\ Len(analysed_df) = Cardinality(TextItems)
        /\ \A k \in 1..Len(analysed_df) :
              LET item == all_sentiment_data[AtRank(TextItems, k)]
              IN  /\ analysed_df[k].type = item.type
                  /\ analysed_df[k].id = item.id
                  /\ analysed_df[k].title = item.title
        /\ Len(unique_df) = Cardinality(FirstRows)
        /\ \A k \in 1..Len(unique_df) : unique_df[k] = analysed_df[AtRank(FirstRows, k)]

\* two different rows had one url, the later was dropped, and a row with
\* another url that stood between them was kept after the first
C11_Witness ==
    /\ pc = "done"
    /\ \E i, m, j \in 1..Len(analysed_df) :
          /\ i < m /\ m < j
          /\ analysed_df[i].url = analysed_df[j].url
          /\ analysed_df[i] # analysed_df[j]
          /\ analysed_df[m].url # analysed_df[i].url
          /\ i \in FirstRows /\ m \in FirstRows
          /\ \E k \in 1..(Len(unique_df) - 1) :
                unique_df[k] = analysed_df[i] /\ unique_df[k + 1] = analysed_df[m]
          /\ \A k \in 1..Len(unique_df) : unique_df[k] # analysed_df[j]

\* C12: every item of the collection that has a text, taken once per type
\* and id, has a row of its own after drop_duplicates.
C12_NoDistinctItemDropped ==
    MainIsOver =>
        \A i \in TextItems :
            \E k \in 1..Len(unique_df) :
                /\ unique_df[k].type = all_sentiment_data[i].type
                /\ unique_df[k].id = all_sentiment_data[i].id

====
